---- MODULE Spec2Model ----
(***************************************************************************)
(* CryoET-DB: the credential bootstrap and the idempotent load pipeline    *)
(* of src/etl/load_data.py, and the bootstrap of src/query_tool.py.        *)
(*                                                                         *)
(* One process runs at a time (Start begins the next invocation once the   *)
(* previous one has exited).  The secret store and the database persist    *)
(* across invocations; everything else is local to one invocation.        *)
(***************************************************************************)
EXTENDS Integers, Sequences, FiniteSets, TLC

\* ------------------------------------------------------------------ bounds
MaxRows == 2          \* longest labels.csv (rows)
MaxTomoSeq == 4       \* cap of the tomograms id sequence
MaxQueryRows == 3     \* longest labels.csv behind the query-only specification
MaxConcRows == 1      \* longest labels.csv of a concurrent run

\* --------------------------------------------------------------- constants
HealthAttempts == 5   \* for i in range(5)

Names == {"A", "B", "C"}
Coords == {10}        \* sample (x, y, z) value of a CSV row
None == "None"              \* an unset value
NoExit == [running |-> TRUE]    \* the process has not ended
NoSecret == [found |-> FALSE]   \* nothing at SECRET_PATH (read raises InvalidPath)
NoTx == [open |-> FALSE]        \* no transaction is open
NoRuns == [concurrent |-> FALSE]   \* one invocation at a time

EnvValues == {None, "", "v"}   \* os.getenv: unset, empty, set

VARIABLES
    tool,              \* which program this invocation runs: "etl" | "query"
    pc,                \* position of the invocation
    i,                 \* loop index of the readiness loop
    exit_status,       \* NoExit while running, else [code |-> the exit status]
    secret,            \* the credential document at SECRET_PATH, or NoSecret
    db_creds,          \* what get_db_credentials_from_vault returned
    schema_applied,    \* committed: schema.sql's tables exist
    tomograms,         \* committed rows of tomograms
    tomograms_seq,     \* last value of the tomo_id sequence (not transactional)
    annotations,       \* committed rows of annotations
    annotations_seq,   \* committed last value of the annotation_id sequence
    temp_tomograms,    \* committed rows of temp_tomograms (<<>>: none, or no table)
    tx,                \* the open transaction's view of the database, or NoTx
    df_labels,         \* the CSV rows read by this run
    df_annotations,    \* the rows to load, keyed by tomo_id
    k,                 \* rows of df_annotations already inserted
    result,            \* what the query tool printed
    env,               \* the first-run environment values read, <<>> before
    \* observers (no effect on the program)
    polls,             \* health polls of this invocation
    secret_reads,      \* secret reads of this invocation
    secret_writes,     \* secret writes of this invocation
    db_connects,       \* database connections attempted by this invocation
    outcome,           \* how this invocation ended
    pre,               \* committed database when this invocation started
    after_seed,        \* the previous invocation wrote the credential document
    total_writes,      \* secret writes over all invocations
    loaded,            \* the CSV of the last load that committed
    history,           \* unique-name lists of the merging runs so far
    conc               \* concurrent pipeline runs on one database, or NoRuns

vars == <<tool, env, after_seed, pc, i, exit_status, secret, db_creds, schema_applied, tomograms,
          tomograms_seq, annotations, annotations_seq, temp_tomograms, tx,
          df_labels, df_annotations, k, result, polls, secret_reads,
          secret_writes, db_connects, outcome, pre, total_writes, loaded,
          history, conc>>

dbVars == <<schema_applied, tomograms, annotations, annotations_seq, temp_tomograms>>
localVars == <<df_labels, df_annotations, k>>
countVars == <<polls, secret_reads, secret_writes, db_connects>>

\* ----------------------------------------------------------------- helpers
Range(s) == {s[j] : j \in 1..Len(s)}

SeqsUpTo(S, n) == UNION {[1..m -> S] : m \in 0..n}

\* One CSV row: the tomogram name (column tomo_id renamed tomo_name) and x, y, z.
CsvRows == [tomo_name : Names, xyz : Coords]
Csvs == SeqsUpTo(CsvRows, MaxRows)

\* The committed database as one value.
Committed ==
    [schema |-> schema_applied, tomograms |-> tomograms, annotations |-> annotations,
     annotations_seq |-> annotations_seq, temp_tomograms |-> temp_tomograms]

\* df_labels['tomo_name'].unique(): the distinct names in order of first appearance.
RECURSIVE Unique(_)
Unique(s) ==
    IF s = <<>> THEN <<>>
    ELSE LET r == Unique(SubSeq(s, 1, Len(s) - 1))
             x == s[Len(s)]
         IN IF x \in Range(r) THEN r ELSE Append(r, x)

NameColumn(df) == [j \in 1..Len(df) |-> df[j].tomo_name]

raw_volume_path(n) == <<"volumes/", n, ".mrc">>

unique_tomos(df) ==
    LET u == Unique(NameColumn(df))
    IN [j \in 1..Len(u) |-> [tomo_name |-> u[j], raw_volume_path |-> raw_volume_path(u[j])]]

\* -------------------------------------------------------------------- Init
Init ==
    /\ tool = "etl"
    /\ pc = "idle"
    /\ i = 0
    /\ exit_status = NoExit
    /\ secret = NoSecret
    /\ db_creds = NoSecret
    /\ schema_applied = FALSE
    /\ tomograms = {}
    /\ tomograms_seq = 0
    /\ annotations = <<>>
    /\ annotations_seq = 0
    /\ temp_tomograms = <<>>
    /\ tx = NoTx
    /\ df_labels = <<>>
    /\ df_annotations = <<>>
    /\ k = 0
    /\ result = [cmd |-> None, count |-> 0, rows |-> <<>>]
    /\ env = <<>>
    /\ after_seed = FALSE
    /\ polls = 0
    /\ secret_reads = 0
    /\ secret_writes = 0
    /\ db_connects = 0
    /\ outcome = None
    /\ pre = Committed
    /\ total_writes = 0
    /\ loaded = <<>>
    /\ history = [clean |-> TRUE, runs |-> <<>>]
    /\ conc = NoRuns

\* The process ends with `status`: its connection and its data frames are gone.
Exit(status, how) ==
    /\ pc' = "exited"
    /\ exit_status' = [code |-> status]
    /\ outcome' = how
    /\ tx' = NoTx
    /\ df_labels' = <<>>
    /\ df_annotations' = <<>>
    /\ k' = 0

\* A new invocation of one of the two programs, after the previous one ended.
Start ==
    /\ pc \in {"idle", "exited"}
    /\ \E t \in {"etl", "query"} : tool' = t
    /\ pc' = "health"
    /\ i' = 0
    /\ exit_status' = NoExit
    /\ db_creds' = NoSecret
    /\ tx' = NoTx
    /\ df_labels' = <<>>
    /\ df_annotations' = <<>>
    /\ k' = 0
    /\ result' = [cmd |-> None, count |-> 0, rows |-> <<>>]
    /\ env' = <<>>
    /\ after_seed' = (outcome = "seeded")
    /\ polls' = 0
    /\ secret_reads' = 0
    /\ secret_writes' = 0
    /\ db_connects' = 0
    /\ outcome' = None
    /\ pre' = Committed
    /\ UNCHANGED <<secret, dbVars, tomograms_seq, total_writes, loaded, history>>
    /\ UNCHANGED conc

\* ------------------------------------------------------------ readiness gate
\* read_health_status().ok is true: break out of the loop.
HealthOk ==
    /\ pc = "health"
    /\ polls' = polls + 1
    /\ pc' = "lookup"
    /\ UNCHANGED <<tool, env, i, exit_status, secret, db_creds, dbVars, tomograms_seq, tx,
                   localVars, result, secret_reads, secret_writes, db_connects,
                   outcome, pre, after_seed, total_writes, loaded, history>>
    /\ UNCHANGED conc

\* Variant: the loop has no else clause, so the run goes on after the last
\* failed attempt.
HealthNotOk_noelse ==
    /\ pc = "health"
    /\ polls' = polls + 1
    /\ i' = i + 1
    /\ pc' = IF i + 1 = HealthAttempts THEN "lookup" ELSE pc
    /\ UNCHANGED <<tool, env, secret, db_creds, dbVars, tomograms_seq, result,
                   secret_reads, secret_writes, db_connects, pre, after_seed,
                   total_writes, loaded, history, exit_status, outcome, tx, localVars>>
    /\ UNCHANGED conc

\* .ok is false: log, sleep, next attempt; the loop's else clause raises after
\* the last attempt, and the outermost handler exits 1.
HealthNotOk ==
    /\ pc = "health"
    /\ polls' = polls + 1
    /\ i' = i + 1
    /\ IF i + 1 = HealthAttempts
       THEN Exit(1, "unavailable")
       ELSE UNCHANGED <<pc, exit_status, outcome, tx, localVars>>
    /\ UNCHANGED <<tool, env, secret, db_creds, dbVars, tomograms_seq, result,
                   secret_reads, secret_writes, db_connects, pre, after_seed, total_writes,
                   loaded, history>>
    /\ UNCHANGED conc

\* read_health_status raises (the store is unreachable): the outermost handler
\* exits 1 at once.
HealthRaises ==
    /\ pc = "health"
    /\ polls' = polls + 1
    /\ Exit(1, "health_error")
    /\ UNCHANGED <<tool, env, i, secret, db_creds, dbVars, tomograms_seq, result,
                   secret_reads, secret_writes, db_connects, pre, after_seed, total_writes,
                   loaded, history>>
    /\ UNCHANGED conc

\* ------------------------------------------------- get_db_credentials_from_vault
\* read_secret_version returns the document.
LookupFound ==
    /\ pc = "lookup"
    /\ secret # NoSecret
    /\ secret_reads' = secret_reads + 1
    /\ db_creds' = secret
    /\ pc' = IF tool = "etl" THEN "connect" ELSE "query"
    /\ UNCHANGED <<tool, env, i, exit_status, secret, dbVars, tomograms_seq, tx, localVars,
                   result, polls, secret_writes, db_connects, outcome, pre, after_seed,
                   total_writes, loaded, history>>
    /\ UNCHANGED conc

\* Variant: every failed read is taken for a missing document (the handler
\* catches more than InvalidPath).
LookupNotFound_always ==
    /\ pc = "lookup"
    /\ secret_reads' = secret_reads + 1
    /\ IF tool = "etl"
       THEN /\ pc' = "firstrun"
            /\ UNCHANGED <<exit_status, outcome, tx, localVars>>
       ELSE Exit(1, "not_found")
    /\ UNCHANGED <<tool, env, i, secret, db_creds, dbVars, tomograms_seq, result,
                   polls, secret_writes, db_connects, pre, after_seed, total_writes,
                   loaded, history>>
    /\ UNCHANGED conc

\* Variant: the query tool shares the ETL's lookup and enters first-run
\* initialisation too.
LookupNotFound_shared ==
    /\ pc = "lookup"
    /\ secret = NoSecret
    /\ secret_reads' = secret_reads + 1
    /\ pc' = "firstrun"
    /\ UNCHANGED <<exit_status, outcome, tx, localVars>>
    /\ UNCHANGED <<tool, env, i, secret, db_creds, dbVars, tomograms_seq, result,
                   polls, secret_writes, db_connects, pre, after_seed, total_writes, loaded,
                   history>>
    /\ UNCHANGED conc

\* read_secret_version raises InvalidPath: the ETL enters first-run
\* initialisation, the query tool exits 1.
LookupNotFound ==
    /\ pc = "lookup"
    /\ secret = NoSecret
    /\ secret_reads' = secret_reads + 1
    /\ IF tool = "etl"
       THEN /\ pc' = "firstrun"
            /\ UNCHANGED <<exit_status, outcome, tx, localVars>>
       ELSE Exit(1, "not_found")
    /\ UNCHANGED <<tool, env, i, secret, db_creds, dbVars, tomograms_seq, result,
                   polls, secret_writes, db_connects, pre, after_seed, total_writes, loaded,
                   history>>
    /\ UNCHANGED conc

\* Variant: a failed read is tried once more before it is fatal.
LookupFails_retry ==
    /\ pc = "lookup"
    /\ secret_reads' = secret_reads + 1
    /\ IF secret_reads = 0
       THEN UNCHANGED <<pc, exit_status, outcome, tx, localVars>>
       ELSE Exit(1, "read_error")
    /\ UNCHANGED <<tool, env, i, secret, db_creds, dbVars, tomograms_seq, result,
                   polls, secret_writes, db_connects, pre, after_seed, total_writes, loaded,
                   history>>
    /\ UNCHANGED conc

\* read_secret_version raises anything else: it reaches the outermost handler
\* (ETL) or the generic handler (query tool); both exit 1.
LookupFails ==
    /\ pc = "lookup"
    /\ secret_reads' = secret_reads + 1
    /\ Exit(1, "read_error")
    /\ UNCHANGED <<tool, env, i, secret, db_creds, dbVars, tomograms_seq, result,
                   polls, secret_writes, db_connects, pre, after_seed, total_writes, loaded,
                   history>>
    /\ UNCHANGED conc

\* Variant: any() in place of all().
all_any(e) == \E v \in Range(e) : v \notin {None, ""}

\* all([pg_user, pg_password, pg_db]): unset and empty values are both falsy.
all(e) == \A v \in Range(e) : v \notin {None, ""}

CredentialDocument(e) ==
    [POSTGRES_USER |-> e[1], POSTGRES_PASSWORD |-> e[2], POSTGRES_DB |-> e[3]]

\* The status the process ends with once the document is written.
SeededStatus == 0

\* POSTGRES_USER, POSTGRES_PASSWORD, POSTGRES_DB as os.getenv returns them.
Envs == [1..3 -> EnvValues]

\* First run, a required environment value is absent: sys.exit(1).
FirstRunMissingEnv ==
    /\ pc = "firstrun"
    /\ \E e \in Envs : ~all(e) /\ env' = e
    /\ Exit(1, "missing_env")
    /\ UNCHANGED <<tool, i, secret, db_creds, dbVars, tomograms_seq, result,
                   countVars, pre, after_seed, total_writes, loaded, history>>
    /\ UNCHANGED conc

\* Variant: the document is written to another path than the one read.
FirstRunWrite_other_path ==
    /\ pc = "firstrun"
    /\ \E e \in Envs : all(e) /\ env' = e
    /\ secret_writes' = secret_writes + 1
    /\ Exit(SeededStatus, "seeded")
    /\ UNCHANGED <<tool, i, secret, db_creds, dbVars, tomograms_seq, result,
                   polls, secret_reads, db_connects, pre, after_seed, total_writes,
                   loaded, history>>
    /\ UNCHANGED conc

\* Variant: the process ends with status 1 once the document is written.
FirstRunWrite_exit1 ==
    /\ pc = "firstrun"
    /\ \E e \in Envs :
         /\ all(e)
         /\ env' = e
         /\ secret' = CredentialDocument(e)
    /\ secret_writes' = secret_writes + 1
    /\ total_writes' = total_writes + 1
    /\ Exit(1, "seeded")
    /\ UNCHANGED <<tool, i, db_creds, dbVars, tomograms_seq, result,
                   polls, secret_reads, db_connects, pre, after_seed, loaded, history>>
    /\ UNCHANGED conc

\* Variant: after the write the function returns the environment values and
\* the run goes on to connect with them.
FirstRunWrite_proceeds ==
    /\ pc = "firstrun"
    /\ \E e \in Envs :
         /\ all(e)
         /\ env' = e
         /\ secret' = CredentialDocument(e)
         /\ db_creds' = CredentialDocument(e)
    /\ secret_writes' = secret_writes + 1
    /\ total_writes' = total_writes + 1
    /\ pc' = "connect"
    /\ UNCHANGED <<tool, i, dbVars, tomograms_seq, result, exit_status, outcome, tx,
                   localVars, polls, secret_reads, db_connects, pre, after_seed,
                   loaded, history>>
    /\ UNCHANGED conc

\* First run, create_or_update_secret succeeds: sys.exit(0).
FirstRunWrite ==
    /\ pc = "firstrun"
    /\ \E e \in Envs :
         /\ all(e)
         /\ env' = e
         /\ secret' = CredentialDocument(e)
    /\ secret_writes' = secret_writes + 1
    /\ total_writes' = total_writes + 1
    /\ Exit(SeededStatus, "seeded")
    /\ UNCHANGED <<tool, i, db_creds, dbVars, tomograms_seq, result,
                   polls, secret_reads, db_connects, pre, after_seed, loaded, history>>
    /\ UNCHANGED conc

\* First run, create_or_update_secret raises: sys.exit(1).
FirstRunWriteFails ==
    /\ pc = "firstrun"
    /\ \E e \in Envs : all(e) /\ env' = e
    /\ secret_writes' = secret_writes + 1
    /\ Exit(1, "write_failed")
    /\ UNCHANGED <<tool, i, secret, db_creds, dbVars, tomograms_seq, result,
                   polls, secret_reads, db_connects, pre, after_seed, total_writes, loaded,
                   history>>
    /\ UNCHANGED conc

\* ------------------------------------------------------ the write transaction
TxPcs == {"schema", "csv", "stage", "merge", "reread", "truncate", "insert"}

SetCommitted(d) ==
    /\ schema_applied' = d.schema
    /\ tomograms' = d.tomograms
    /\ annotations' = d.annotations
    /\ annotations_seq' = d.annotations_seq
    /\ temp_tomograms' = d.temp_tomograms

View(t) ==
    [schema |-> t.schema, tomograms |-> t.tomograms, annotations |-> t.annotations,
     annotations_seq |-> t.annotations_seq, temp_tomograms |-> t.temp_tomograms]

\* Variant: every statement commits at once (no enclosing transaction).
begin_exit_autocommit(raised, t) == View(t)

\* with engine.begin() as connection: leaving the block commits, an exception
\* leaving it rolls back.  The committed database afterwards.
begin_exit(raised, t) == IF raised THEN Committed ELSE View(t)

\* Variant: the handler logs the OperationalError and returns.
ConnectFails_returns ==
    /\ pc = "connect"
    /\ db_connects' = db_connects + 1
    /\ Exit(0, "connect_failed")
    /\ UNCHANGED <<tool, env, i, secret, db_creds, dbVars, tomograms_seq, result,
                   polls, secret_reads, secret_writes, pre, after_seed, total_writes, loaded,
                   history>>
    /\ UNCHANGED conc

\* engine.begin() cannot connect: OperationalError, exit 1.
ConnectFails ==
    /\ pc = "connect"
    /\ db_connects' = db_connects + 1
    /\ Exit(1, "connect_failed")
    /\ UNCHANGED <<tool, env, i, secret, db_creds, dbVars, tomograms_seq, result,
                   polls, secret_reads, secret_writes, pre, after_seed, total_writes, loaded,
                   history>>
    /\ UNCHANGED conc

\* create_engine(DATABASE_URL); engine.begin() opens the transaction.
Connect ==
    /\ pc = "connect"
    /\ db_connects' = db_connects + 1
    /\ tx' = [open |-> TRUE, schema |-> schema_applied, tomograms |-> tomograms,
              annotations |-> annotations, annotations_seq |-> annotations_seq,
              temp_tomograms |-> temp_tomograms]
    /\ pc' = "schema"
    /\ UNCHANGED <<tool, env, i, exit_status, secret, db_creds, dbVars, tomograms_seq,
                   localVars, result, polls, secret_reads, secret_writes, outcome,
                   pre, after_seed, total_writes, loaded, history>>
    /\ UNCHANGED conc

\* schema.sql: idempotent DDL, creates the (empty) tables that do not exist yet.
schema_sql(t) == [t EXCEPT !.schema = TRUE]

\* connection.execute(text(SQL_SCHEMA_PATH.read_text()))
ApplySchema ==
    /\ pc = "schema"
    /\ tx' = schema_sql(tx)
    /\ pc' = "csv"
    /\ UNCHANGED <<tool, env, i, exit_status, secret, db_creds, dbVars, tomograms_seq,
                   localVars, result, countVars, outcome, pre, after_seed, total_writes, loaded,
                   history>>
    /\ UNCHANGED conc

\* The status of a main() that returns.
ReturnStatus == 0

\* labels.csv does not exist: log and return from inside the with block, which
\* commits what the transaction has done so far.
CsvMissing ==
    /\ pc = "csv"
    /\ SetCommitted(begin_exit(FALSE, tx))
    /\ Exit(ReturnStatus, "csv_missing")
    /\ UNCHANGED <<tool, env, i, secret, db_creds, tomograms_seq, result, countVars,
                   pre, after_seed, total_writes, loaded, history>>
    /\ UNCHANGED conc

\* pd.read_csv(LABELS_CSV_PATH).rename(columns={'tomo_id': 'tomo_name'})
ReadCsv ==
    /\ pc = "csv"
    /\ \E csv \in Csvs :
         /\ tomograms_seq + Len(Unique(NameColumn(csv))) <= MaxTomoSeq
         /\ df_labels' = csv
    /\ pc' = "stage"
    /\ UNCHANGED <<tool, env, i, exit_status, secret, db_creds, dbVars, tomograms_seq, tx,
                   df_annotations, k, result, countVars, outcome, pre, after_seed, total_writes,
                   loaded, history>>
    /\ UNCHANGED conc

\* unique_tomos.to_sql('temp_tomograms', connection, if_exists='replace')
Stage ==
    /\ pc = "stage"
    /\ tx' = [tx EXCEPT !.temp_tomograms = unique_tomos(df_labels)]
    /\ pc' = "merge"
    /\ UNCHANGED <<tool, env, i, exit_status, secret, db_creds, dbVars, tomograms_seq,
                   localVars, result, countVars, outcome, pre, after_seed, total_writes, loaded,
                   history>>
    /\ UNCHANGED conc

\* The generated tomo_id: the next value of the table's sequence.
nextval(seq) == seq + 1

TomoNames(toms) == {r.tomo_name : r \in toms}
TomoIds(toms) == {r.tomo_id : r \in toms}

\* Variant: ON CONFLICT (tomo_name) DO UPDATE, the row of an existing name is
\* replaced by the candidate row.
RECURSIVE insert_sql_upsert(_, _, _)
insert_sql_upsert(rows, toms, seq) ==
    IF rows = <<>> THEN [tomograms |-> toms, seq |-> seq]
    ELSE LET r == Head(rows)
             id == nextval(seq)
         IN insert_sql_upsert(Tail(rows),
                              {t \in toms : t.tomo_name # r.tomo_name}
                                \cup {[tomo_id |-> id, tomo_name |-> r.tomo_name,
                                       raw_volume_path |-> r.raw_volume_path]},
                              id)

\* Variant: existence check, then insert: a candidate whose name exists draws
\* no id.
RECURSIVE insert_sql_check_first(_, _, _)
insert_sql_check_first(rows, toms, seq) ==
    IF rows = <<>> THEN [tomograms |-> toms, seq |-> seq]
    ELSE LET r == Head(rows)
         IN IF r.tomo_name \in TomoNames(toms)
            THEN insert_sql_check_first(Tail(rows), toms, seq)
            ELSE insert_sql_check_first(Tail(rows),
                            toms \cup {[tomo_id |-> nextval(seq), tomo_name |-> r.tomo_name,
                                        raw_volume_path |-> r.raw_volume_path]},
                            nextval(seq))

\* INSERT INTO tomograms (tomo_name, raw_volume_path) SELECT ... FROM temp_tomograms
\* ON CONFLICT (tomo_name) DO NOTHING: the rows in order; the id default is
\* evaluated for every candidate row, a row whose name exists is then dropped.
RECURSIVE insert_sql(_, _, _)
insert_sql(rows, toms, seq) ==
    IF rows = <<>> THEN [tomograms |-> toms, seq |-> seq]
    ELSE LET r == Head(rows)
             id == nextval(seq)
         IN IF r.tomo_name \in TomoNames(toms)
            THEN insert_sql(Tail(rows), toms, id)
            ELSE insert_sql(Tail(rows),
                            toms \cup {[tomo_id |-> id, tomo_name |-> r.tomo_name,
                                        raw_volume_path |-> r.raw_volume_path]},
                            id)

\* The run log: the unique-name list of each merging run, while every such run
\* committed and there are at most two of them.
Logged(h, names) ==
    IF h.clean /\ Len(h.runs) < 2
    THEN [h EXCEPT !.runs = Append(h.runs, names)]
    ELSE [clean |-> FALSE, runs |-> <<>>]

\* connection.execute(insert_sql)
Merge ==
    /\ pc = "merge"
    /\ LET m == insert_sql(tx.temp_tomograms, tx.tomograms, tomograms_seq)
       IN /\ tx' = [tx EXCEPT !.tomograms = m.tomograms]
          /\ tomograms_seq' = m.seq
    /\ history' = Logged(history, Unique(NameColumn(df_labels)))
    /\ pc' = "reread"
    /\ UNCHANGED <<tool, env, i, exit_status, secret, db_creds, dbVars, localVars,
                   result, countVars, outcome, pre, after_seed, total_writes, loaded>>
    /\ UNCHANGED conc

NaN == 0   \* the tomo_id of a name the mapping does not hold

\* dict(zip(tomo_map_df['tomo_name'], tomo_map_df['tomo_id'])) applied to a name
tomo_map(toms, n) ==
    IF n \in TomoNames(toms)
    THEN (CHOOSE r \in toms : r.tomo_name = n).tomo_id
    ELSE NaN

\* Variant: the mapping is read outside the transaction (before the merge is
\* visible).
Reread_committed ==
    /\ pc = "reread"
    /\ df_annotations' = [j \in 1..Len(df_labels) |->
                            [tomo_id |-> tomo_map(tomograms, df_labels[j].tomo_name),
                             coord_xyz |-> df_labels[j].xyz]]
    /\ pc' = "truncate"
    /\ UNCHANGED <<tool, env, i, exit_status, secret, db_creds, dbVars, tomograms_seq, tx,
                   df_labels, k, result, countVars, outcome, pre, after_seed, total_writes,
                   loaded, history>>
    /\ UNCHANGED conc

\* SELECT tomo_id, tomo_name FROM tomograms; df_labels['tomo_id'] = ...map(...);
\* df_annotations = df_labels[['tomo_id', 'x', 'y', 'z']] renamed coord_*
Reread ==
    /\ pc = "reread"
    /\ df_annotations' = [j \in 1..Len(df_labels) |->
                            [tomo_id |-> tomo_map(tx.tomograms, df_labels[j].tomo_name),
                             coord_xyz |-> df_labels[j].xyz]]
    /\ pc' = "truncate"
    /\ UNCHANGED <<tool, env, i, exit_status, secret, db_creds, dbVars, tomograms_seq, tx,
                   df_labels, k, result, countVars, outcome, pre, after_seed, total_writes,
                   loaded, history>>
    /\ UNCHANGED conc

\* Variant: TRUNCATE without RESTART IDENTITY.
Truncate_no_restart ==
    /\ pc = "truncate"
    /\ tx' = [tx EXCEPT !.annotations = <<>>]
    /\ k' = 0
    /\ pc' = "insert"
    /\ UNCHANGED <<tool, env, i, exit_status, secret, db_creds, dbVars, tomograms_seq,
                   df_labels, df_annotations, result, countVars, outcome, pre,
                   after_seed, total_writes, loaded, history>>
    /\ UNCHANGED conc

\* TRUNCATE TABLE annotations RESTART IDENTITY CASCADE
Truncate ==
    /\ pc = "truncate"
    /\ tx' = [tx EXCEPT !.annotations = <<>>, !.annotations_seq = 0]
    /\ k' = 0
    /\ pc' = "insert"
    /\ UNCHANGED <<tool, env, i, exit_status, secret, db_creds, dbVars, tomograms_seq,
                   df_labels, df_annotations, result, countVars, outcome, pre, after_seed,
                   total_writes, loaded, history>>
    /\ UNCHANGED conc

\* The foreign key of annotations.tomo_id.
ForeignKeyOk(t, row) == row.tomo_id \in TomoIds(t.tomograms)

\* Variant: to_sql on the engine, not on the connection: each insert commits.
InsertRow_autocommit ==
    /\ pc = "insert"
    /\ k < Len(df_annotations)
    /\ LET row == df_annotations[k + 1]
           id == nextval(tx.annotations_seq)
       IN /\ ForeignKeyOk(tx, row)
          /\ tx' = [tx EXCEPT !.annotations =
                                 Append(@, [annotation_id |-> id,
                                            tomo_id |-> row.tomo_id,
                                            coord_xyz |-> row.coord_xyz]),
                              !.annotations_seq = id]
          /\ k' = k + 1
          /\ SetCommitted(View(tx'))
          /\ UNCHANGED <<pc, exit_status, outcome, history, df_labels, df_annotations>>
    /\ UNCHANGED <<tool, env, i, secret, db_creds, tomograms_seq, result, countVars, pre,
                   after_seed, total_writes, loaded>>
    /\ UNCHANGED conc

\* df_annotations.to_sql('annotations', connection, if_exists='append'): the
\* next row is inserted; a row that fails the foreign key raises.
InsertRow ==
    /\ pc = "insert"
    /\ k < Len(df_annotations)
    /\ LET row == df_annotations[k + 1]
           id == nextval(tx.annotations_seq)
       IN IF ForeignKeyOk(tx, row)
          THEN /\ tx' = [tx EXCEPT !.annotations =
                                      Append(@, [annotation_id |-> id,
                                                 tomo_id |-> row.tomo_id,
                                                 coord_xyz |-> row.coord_xyz]),
                                   !.annotations_seq = id]
               /\ k' = k + 1
               /\ UNCHANGED <<pc, exit_status, outcome, dbVars, history, df_labels,
                              df_annotations>>
          ELSE /\ SetCommitted(begin_exit(TRUE, tx))
               /\ Exit(1, "rolled_back")
               /\ history' = [clean |-> FALSE, runs |-> <<>>]
    /\ UNCHANGED <<tool, env, i, secret, db_creds, tomograms_seq, result, countVars, pre, after_seed,
                   total_writes, loaded>>
    /\ UNCHANGED conc

\* All rows are inserted: the with block ends and commits; main returns.
Commit ==
    /\ pc = "insert"
    /\ k = Len(df_annotations)
    /\ SetCommitted(begin_exit(FALSE, tx))
    /\ Exit(ReturnStatus, "loaded")
    /\ loaded' = df_labels
    /\ UNCHANGED <<tool, env, i, secret, db_creds, tomograms_seq, result, countVars,
                   pre, after_seed, total_writes, history>>
    /\ UNCHANGED conc

\* A step of the transactional phase raises (or the process is interrupted):
\* the with block rolls back and the outermost handler exits 1.
Raise ==
    /\ pc \in TxPcs
    /\ SetCommitted(begin_exit(TRUE, tx))
    /\ Exit(1, "rolled_back")
    /\ history' = IF pc \in {"reread", "truncate", "insert"}
                  THEN [clean |-> FALSE, runs |-> <<>>]
                  ELSE history
    /\ UNCHANGED <<tool, env, i, secret, db_creds, tomograms_seq, result, countVars,
                   pre, after_seed, total_writes, loaded>>
    /\ UNCHANGED conc

\* ------------------------------------------------------------ the query tool
NoResult == [cmd |-> None, count |-> 0, rows |-> <<>>]

QueryNames == Names \cup {"Z"}        \* --tomo-name
MinAnnotations == -1..MaxQueryRows    \* --min-annotations
AnnotationIds == 0..(MaxQueryRows + 1) \* --annotation-id

\* The rows of annotations a JOIN tomograms t ON a.tomo_id = t.tomo_id with
\* t.tomo_name = n, as positions in annotations.
Joined(n) ==
    {j \in 1..Len(annotations) :
        \E t \in tomograms : t.tomo_id = annotations[j].tomo_id /\ t.tomo_name = n}

\* Variant: the WHERE clause is missing.
count_query_all(n) == Len(annotations)

\* SELECT COUNT(a.annotation_id) ... WHERE t.tomo_name = :tomo_name
count_query(n) == Cardinality(Joined(n))

\* Variant: HAVING COUNT(...) >= :min_annotations.
rich_groups_ge(min) ==
    {[tomo_name |-> t.tomo_name, annotation_count |-> count_query(t.tomo_name)] :
        t \in {u \in tomograms : count_query(u.tomo_name) > 0
                                 /\ count_query(u.tomo_name) >= min}}

\* GROUP BY t.tomo_name HAVING COUNT(a.annotation_id) > :min_annotations, over
\* the inner join (a tomogram without annotations forms no group).
rich_groups(min) ==
    {[tomo_name |-> t.tomo_name, annotation_count |-> count_query(t.tomo_name)] :
        t \in {u \in tomograms : count_query(u.tomo_name) > 0
                                 /\ count_query(u.tomo_name) > min}}

\* ORDER BY annotation_count DESC: every order of the groups that is descending.
rich_orders(min) ==
    LET g == rich_groups(min)
    IN {s \in [1..Cardinality(g) -> g] :
          /\ \A a, b \in 1..Cardinality(g) : a # b => s[a] # s[b]
          /\ \A a \in 1..(Cardinality(g) - 1) :
               s[a].annotation_count >= s[a + 1].annotation_count}

\* SELECT t.raw_volume_path, a.coord_* ... WHERE a.annotation_id = :aid, .first()
visualize_query(aid) ==
    LET hit == {j \in 1..Len(annotations) :
                  /\ annotations[j].annotation_id = aid
                  /\ annotations[j].tomo_id \in TomoIds(tomograms)}
    IN IF hit = {} THEN <<>>
       ELSE LET j == CHOOSE j \in hit : TRUE
                t == CHOOSE t \in tomograms : t.tomo_id = annotations[j].tomo_id
            IN <<[raw_volume_path |-> t.raw_volume_path,
                  coord_xyz |-> annotations[j].coord_xyz]>>

QueryFrame ==
    UNCHANGED <<conc, tool, env, i, secret, db_creds, dbVars, tomograms_seq, polls,
                secret_reads, secret_writes, pre, after_seed, total_writes, loaded, history>>

\* The command cannot connect (OperationalError): main exits 1.
QueryConnectFails ==
    /\ pc = "query"
    /\ db_connects' = db_connects + 1
    /\ Exit(1, "connect_failed")
    /\ UNCHANGED result
    /\ QueryFrame

\* The tables do not exist yet: the statement raises, main exits 1.
QueryNoTables ==
    /\ pc = "query"
    /\ ~schema_applied
    /\ db_connects' = db_connects + 1
    /\ Exit(1, "query_error")
    /\ UNCHANGED result
    /\ QueryFrame

\* count-annotations --tomo-name n: prints result or 0.
count_annotations ==
    /\ pc = "query"
    /\ schema_applied
    /\ db_connects' = db_connects + 1
    /\ \E n \in QueryNames :
         result' = [cmd |-> "count", name |-> n, count |-> count_query(n), rows |-> <<>>]
    /\ Exit(ReturnStatus, "queried")
    /\ QueryFrame

\* find-rich-tomograms --min-annotations m
find_rich_tomograms ==
    /\ pc = "query"
    /\ schema_applied
    /\ db_connects' = db_connects + 1
    /\ \E m \in MinAnnotations : \E s \in rich_orders(m) :
         result' = [cmd |-> "find_rich", min |-> m, count |-> 0, rows |-> s]
    /\ Exit(ReturnStatus, "queried")
    /\ QueryFrame

\* visualize --annotation-id aid: the row looked up, or the not-found message;
\* either way the function returns.
visualize_annotation ==
    /\ pc = "query"
    /\ schema_applied
    /\ db_connects' = db_connects + 1
    /\ \E aid \in AnnotationIds :
         result' = [cmd |-> "visualize", aid |-> aid, count |-> 0,
                    rows |-> visualize_query(aid)]
    /\ Exit(ReturnStatus, "queried")
    /\ QueryFrame

\* -------------------------------------------------------------------- Next
Next ==
    \/ Start
    \/ HealthOk
    \/ HealthNotOk
    \/ HealthRaises
    \/ LookupFound
    \/ LookupNotFound
    \/ LookupFails
    \/ FirstRunMissingEnv
    \/ FirstRunWrite
    \/ FirstRunWriteFails
    \/ ConnectFails
    \/ Connect
    \/ ApplySchema
    \/ CsvMissing
    \/ ReadCsv
    \/ Stage
    \/ Merge
    \/ Reread
    \/ Truncate
    \/ InsertRow
    \/ Commit
    \/ Raise
    \/ QueryConnectFails
    \/ QueryNoTables
    \/ count_annotations
    \/ find_rich_tomograms
    \/ visualize_annotation

Spec == Init /\ [][Next]_vars

\* ------------------------------------------- the query tool over a loaded database
\* The database one load of `csv` into an empty database commits.
LoadedDb(csv) ==
    LET m == insert_sql(unique_tomos(csv), {}, 0)
    IN [tomograms |-> m.tomograms,
        seq |-> m.seq,
        annotations |-> [j \in 1..Len(csv) |->
                           [annotation_id |-> j,
                            tomo_id |-> tomo_map(m.tomograms, csv[j].tomo_name),
                            coord_xyz |-> csv[j].xyz]]]

\* The query tool has read its credentials; the database holds one load.
QueryInit ==
    \E csv \in SeqsUpTo(CsvRows, MaxQueryRows) :
        /\ tool = "query"
        /\ pc = "query"
        /\ i = 0
        /\ exit_status = NoExit
        /\ secret = CredentialDocument(<<"v", "v", "v">>)
        /\ db_creds = secret
        /\ schema_applied = TRUE
        /\ tomograms = LoadedDb(csv).tomograms
        /\ tomograms_seq = LoadedDb(csv).seq
        /\ annotations = LoadedDb(csv).annotations
        /\ annotations_seq = Len(csv)
        /\ temp_tomograms = unique_tomos(csv)
        /\ tx = NoTx
        /\ df_labels = <<>>
        /\ df_annotations = <<>>
        /\ k = 0
        /\ result = NoResult
        /\ env = <<>>
        /\ after_seed = FALSE
        /\ polls = 1
        /\ secret_reads = 1
        /\ secret_writes = 0
        /\ db_connects = 0
        /\ outcome = None
        /\ pre = Committed
        /\ total_writes = 1
        /\ loaded = csv
        /\ history = [clean |-> FALSE, runs |-> <<>>]
        /\ conc = NoRuns

QueryNext ==
    \/ QueryConnectFails
    \/ count_annotations
    \/ find_rich_tomograms
    \/ visualize_annotation

QuerySpec == QueryInit /\ [][QueryNext]_vars

\* ------------------------------------- two pipeline runs on one database
\* Both runs have their credentials and an engine; each executes the block
\* `with engine.begin() as connection:` once, on its own connection. The
\* committed database is schema_applied, tomograms, tomograms_seq,
\* annotations, annotations_seq, temp_tomograms and conc.temp_exists; what a
\* run has written and not committed is conc.run[r].view. DDL conflicts follow
\* PostgreSQL: a CREATE TABLE of a name another open transaction has created
\* waits for that transaction and fails once it commits; a DROP TABLE waits for
\* the ACCESS EXCLUSIVE lock another open transaction holds on the table.
Procs == {1, 2}
other(r) == 3 - r

ConcCsvs == SeqsUpTo(CsvRows, MaxConcRows)

NoView == [written |-> FALSE]

\* conc.schema_creator: the run whose open transaction created the schema
\* tables (0: none). conc.temp_locker: the run whose open transaction dropped
\* or created temp_tomograms and holds its lock (0: none).
RunsOf(c1, c2, staged) ==
    [concurrent |-> TRUE,
     temp_exists |-> staged,
     staged0 |-> staged,
     schema_creator |-> 0,
     temp_locker |-> 0,
     run |-> [r \in Procs |->
                [pc |-> "schema",
                 csv |-> IF r = 1 THEN c1 ELSE c2,
                 has_table |-> FALSE,
                 view |-> NoView,
                 df_annotations |-> <<>>,
                 status |-> NoExit,
                 outcome |-> None]]]

\* The database is new, or holds the schema only (a run that found no CSV),
\* or holds one committed load; two runs start against it.
ConcInit ==
    \E c0 \in ConcCsvs, c1 \in ConcCsvs, c2 \in ConcCsvs, db \in {"new", "schema", "loaded"} :
        /\ tool = "etl"
        /\ pc = "schema"
        /\ i = 0
        /\ exit_status = NoExit
        /\ secret = CredentialDocument(<<"v", "v", "v">>)
        /\ db_creds = secret
        /\ schema_applied = (db # "new")
        /\ tomograms = IF db = "loaded" THEN LoadedDb(c0).tomograms ELSE {}
        /\ tomograms_seq = IF db = "loaded" THEN LoadedDb(c0).seq ELSE 0
        /\ annotations = IF db = "loaded" THEN LoadedDb(c0).annotations ELSE <<>>
        /\ annotations_seq = IF db = "loaded" THEN Len(c0) ELSE 0
        /\ temp_tomograms = IF db = "loaded" THEN unique_tomos(c0) ELSE <<>>
        /\ db # "loaded" => c0 = <<>>
        /\ tx = NoTx
        /\ df_labels = <<>>
        /\ df_annotations = <<>>
        /\ k = 0
        /\ result = NoResult
        /\ env = <<>>
        /\ after_seed = FALSE
        /\ polls = 1
        /\ secret_reads = 1
        /\ secret_writes = 0
        /\ db_connects = 1
        /\ outcome = None
        /\ pre = Committed
        /\ total_writes = 1
        /\ loaded = c0
        /\ history = [clean |-> FALSE, runs |-> <<>>]
        /\ conc = RunsOf(c1, c2, db = "loaded")

seqVars == <<tool, env, after_seed, pc, i, exit_status, secret, db_creds, tx,
             df_labels, df_annotations, k, result, polls, secret_reads,
             secret_writes, db_connects, outcome, pre, total_writes, loaded,
             history>>

At(r, where) == conc.concurrent /\ conc.run[r].pc = where

\* The run's transaction ends: its locks are released.
Released(c, r) ==
    [c EXCEPT !.schema_creator = IF @ = r THEN 0 ELSE @,
              !.temp_locker = IF @ = r THEN 0 ELSE @]

\* An exception leaves the with block: rollback, then sys.exit(1).
RunFails(c, r) ==
    [Released(c, r) EXCEPT !.run[r].pc = "done",
                           !.run[r].view = NoView,
                           !.run[r].df_annotations = <<>>,
                           !.run[r].status = [code |-> 1],
                           !.run[r].outcome = "rolled_back"]

\* schema.sql on the run's connection: CREATE TABLE IF NOT EXISTS is a no-op on
\* committed tables, creates them when no one has, and otherwise waits for the
\* run whose open transaction created them.
RunSchema(r) ==
    /\ At(r, "schema")
    /\ conc' = IF schema_applied \/ conc.schema_creator = r
                THEN [conc EXCEPT !.run[r].pc = "has_table"]
                ELSE IF conc.schema_creator = 0
                THEN [conc EXCEPT !.schema_creator = r, !.run[r].pc = "has_table"]
                ELSE [conc EXCEPT !.run[r].pc = "schema_wait"]
    /\ UNCHANGED <<seqVars, dbVars, tomograms_seq>>

\* The creating transaction has ended: the waiting CREATE TABLE fails on the
\* committed tables (duplicate key in the catalog), or creates them after a
\* rollback.
RunSchemaResumes(r) ==
    /\ At(r, "schema_wait")
    /\ conc.schema_creator = 0
    /\ conc' = IF schema_applied
                THEN RunFails(conc, r)
                ELSE [conc EXCEPT !.schema_creator = r, !.run[r].pc = "has_table"]
    /\ UNCHANGED <<seqVars, dbVars, tomograms_seq>>

\* read_csv, unique_tomos, and the first step of to_sql(if_exists='replace'):
\* does temp_tomograms exist? The run sees committed tables only.
RunHasTable(r) ==
    /\ At(r, "has_table")
    /\ conc' = [conc EXCEPT !.run[r].has_table = conc.temp_exists,
                            !.run[r].pc = "replace"]
    /\ UNCHANGED <<seqVars, dbVars, tomograms_seq>>

\* to_sql(if_exists='replace') goes on: DROP TABLE when the table was seen
\* (waiting while the other run holds its lock), then CREATE TABLE and the
\* insert of the rows. The CREATE TABLE of a table that was not seen waits for
\* the other run's open CREATE and fails when the table is committed by now.
RunReplace(r) ==
    /\ At(r, "replace")
    /\ conc.temp_locker # other(r)
    /\ conc' = IF ~conc.run[r].has_table /\ conc.temp_exists
                THEN RunFails(conc, r)
                ELSE [conc EXCEPT !.temp_locker = r, !.run[r].pc = "merge"]
    /\ UNCHANGED <<seqVars, dbVars, tomograms_seq>>

\* insert_sql: the run's first write to tomograms, over the committed rows; the
\* id sequence advances outside the transaction.
RunMerge(r) ==
    /\ At(r, "merge")
    /\ LET m == insert_sql(unique_tomos(conc.run[r].csv), tomograms, tomograms_seq)
       IN /\ tomograms_seq' = m.seq
          /\ conc' = [conc EXCEPT !.run[r].pc = "reread",
                                  !.run[r].view = [written |-> TRUE,
                                                   tomograms |-> m.tomograms,
                                                   annotations |-> annotations,
                                                   annotations_seq |-> annotations_seq]]
    /\ UNCHANGED <<seqVars, dbVars>>

\* tomo_map_df and df_annotations, from the run's view of tomograms.
RunReread(r) ==
    /\ At(r, "reread")
    /\ LET csv == conc.run[r].csv
       IN conc' = [conc EXCEPT !.run[r].pc = "facts",
                               !.run[r].df_annotations =
                                   [j \in 1..Len(csv) |->
                                       [tomo_id |-> tomo_map(conc.run[r].view.tomograms,
                                                             csv[j].tomo_name),
                                        coord_xyz |-> csv[j].xyz]]]
    /\ UNCHANGED <<seqVars, dbVars, tomograms_seq>>

\* TRUNCATE ... RESTART IDENTITY, then the append of df_annotations.
RunFacts(r) ==
    /\ At(r, "facts")
    /\ LET df == conc.run[r].df_annotations
       IN conc' = [conc EXCEPT !.run[r].pc = "commit",
                               !.run[r].view.annotations =
                                   [j \in 1..Len(df) |->
                                       [annotation_id |-> j,
                                        tomo_id |-> df[j].tomo_id,
                                        coord_xyz |-> df[j].coord_xyz]],
                               !.run[r].view.annotations_seq = Len(df)]
    /\ UNCHANGED <<seqVars, dbVars, tomograms_seq>>

\* The with block ends normally: commit, locks released, exit status 0.
RunCommit(r) ==
    /\ At(r, "commit")
    /\ schema_applied' = TRUE
    /\ tomograms' = conc.run[r].view.tomograms
    /\ annotations' = conc.run[r].view.annotations
    /\ annotations_seq' = conc.run[r].view.annotations_seq
    /\ temp_tomograms' = unique_tomos(conc.run[r].csv)
    /\ conc' = [Released(conc, r) EXCEPT !.temp_exists = TRUE,
                                         !.run[r].pc = "done",
                                         !.run[r].view = NoView,
                                         !.run[r].df_annotations = <<>>,
                                         !.run[r].status = [code |-> ReturnStatus],
                                         !.run[r].outcome = "loaded"]
    /\ UNCHANGED <<seqVars, tomograms_seq>>

ConcNext ==
    \/ \E r \in Procs : RunSchema(r)
    \/ \E r \in Procs : RunSchemaResumes(r)
    \/ \E r \in Procs : RunHasTable(r)
    \/ \E r \in Procs : RunReplace(r)
    \/ \E r \in Procs : RunMerge(r)
    \/ \E r \in Procs : RunReread(r)
    \/ \E r \in Procs : RunFacts(r)
    \/ \E r \in Procs : RunCommit(r)

ConcSpec == ConcInit /\ [][ConcNext]_vars

\* ------------------------------------------------------------------ claims
Exited == pc = "exited"
ExitCode == exit_status.code

\* The name -> id mapping the tomograms table holds.
Mapping == {<<t.tomo_name, t.tomo_id>> : t \in tomograms}

\* The annotation rows a load of `csv` leaves, keyed through the table.
Snapshot(csv) ==
    [j \in 1..Len(csv) |->
        [annotation_id |-> j,
         tomo_id |-> tomo_map(tomograms, csv[j].tomo_name),
         coord_xyz |-> csv[j].xyz]]

\* C1: a run that raised in its transactional phase leaves the committed
\* tomograms and annotations (and the rest of the committed database) exactly
\* as they were when the run started, and the process exits non-zero.
C1_RollbackIsTotal ==
    outcome = "rolled_back" =>
        /\ Exited
        /\ tomograms = pre.tomograms
        /\ annotations = pre.annotations
        /\ Committed = pre
        /\ ExitCode # 0

\* A run merged new tomogram rows (it drew ids) and then raised: none is there.
C1_Witness ==
    /\ outcome = "rolled_back"
    /\ tomograms = {}
    /\ tomograms_seq > 0

\* C2: in every committed state every annotation's tomo_id is the id of a
\* tomogram row, and the annotations are the complete snapshot of the last
\* load that committed, never a part of one.
C2_ReferentialInvariant ==
    /\ \A j \in 1..Len(annotations) : annotations[j].tomo_id \in TomoIds(tomograms)
    /\ annotations = Snapshot(loaded)

\* A load of two rows has inserted its first row, over a committed load of one
\* row: the committed rows are still those of the earlier load.
C2_Witness ==
    /\ pc = "insert"
    /\ k = 1
    /\ Len(df_annotations) = 2
    /\ Len(tx.annotations) = 1
    /\ Len(annotations) = 1
    /\ tx.annotations[1].tomo_id # annotations[1].tomo_id

\* C3: no step deletes or alters a committed tomogram row, a name has one row
\* (so one id) at all times, and a load whose names all exist already leaves
\* the tomogram rows as they were.
C3_TomogramsAdditive ==
    [][/\ tomograms \subseteq tomograms'
       /\ \A a, b \in tomograms' : a.tomo_name = b.tomo_name => a = b
       /\ (pc = "insert" /\ outcome' = "loaded"
           /\ Range(NameColumn(df_labels)) \subseteq TomoNames(tomograms))
          => tomograms' = tomograms]_vars

\* The same CSV was loaded twice and the rows are those of the first load.
C3_Witness ==
    /\ outcome = "loaded"
    /\ history.clean
    /\ history.runs = << <<"A", "B">>, <<"A", "B">> >>
    /\ tomograms = pre.tomograms
    /\ Cardinality(tomograms) = 2

RunAB == <<"A", "B">>
RunAC == <<"A", "C">>
RunCA == <<"C", "A">>

\* Nothing but the listed committed loads has drawn ids.
LoadedExactly(runs) == outcome = "loaded" /\ history.clean /\ history.runs = runs

C5_SnapshotReplace ==
    outcome = "loaded" =>
        /\ Len(annotations) = Len(loaded)
        /\ \A j \in 1..Len(annotations) :
             /\ annotations[j].annotation_id = j
             /\ annotations[j].coord_xyz = loaded[j].xyz
             /\ \E t \in tomograms : /\ t.tomo_id = annotations[j].tomo_id
                                     /\ t.tomo_name = loaded[j].tomo_name
        /\ annotations_seq = Len(loaded)

\* A load of one row replaced a committed load of two rows.
C5_Witness ==
    /\ outcome = "loaded"
    /\ Len(pre.annotations) = 2
    /\ Len(annotations) = 1
    /\ annotations[1].tomo_id # pre.annotations[1].tomo_id

\* C6: the invocation that writes the credential document ends without a
\* database connection or write; the invocation after it finds the document
\* (it never enters first-run initialisation) and connects with what it read.
C6_SeedThenRerun ==
    /\ outcome = "seeded" =>
         /\ Exited
         /\ db_connects = 0
         /\ Committed = pre
         /\ secret = CredentialDocument(env)
    /\ after_seed =>
         /\ secret # NoSecret
         /\ pc # "firstrun"
         /\ outcome \notin {"seeded", "missing_env", "write_failed", "not_found"}
         /\ (pc \in {"connect"} \cup TxPcs => db_creds = secret /\ secret_reads = 1)
         /\ (outcome = "loaded" => secret_reads = 1 /\ db_connects = 1)

\* The invocation after the seeding one performed a load.
C6_Witness ==
    /\ after_seed
    /\ tool = "etl"
    /\ outcome = "loaded"
    /\ annotations # <<>>

FatalOutcomes ==
    {"unavailable", "health_error", "read_error", "not_found", "missing_env",
     "write_failed", "connect_failed", "rolled_back", "query_error"}

\* C7 as stated: the status after the first-run write differs from the status
\* of a completed load and from the status of a fatal failure.
C7_DistinguishedStatus ==
    outcome = "seeded" => ExitCode # ReturnStatus /\ ExitCode # 1

\* C7 (amended): the status after the first-run write is 0, the status of a
\* completed load; every fatal failure ends with 1, so the exit status tells
\* failure from the other two outcomes and nothing more.
C7_SeededStatusIsSuccess ==
    /\ outcome = "seeded" => ExitCode = 0
    /\ outcome = "loaded" => ExitCode = 0
    /\ outcome \in FatalOutcomes => ExitCode = 1

C7_Witness == outcome = "seeded" /\ Exited /\ secret # NoSecret

\* C8: while the credential document exists no step writes it, enters
\* first-run initialisation or reads the first-run environment, and a lookup
\* ends the process only when the read itself fails; the document is written
\* at most once over all invocations.
C8_FoundShortCircuits ==
    /\ [](total_writes <= 1)
    /\ [][secret # NoSecret =>
            /\ secret' = secret
            /\ total_writes' = total_writes
            /\ secret_writes' = 0
            /\ pc' # "firstrun"
            /\ (pc' # "health" => env' = <<>>)
            /\ (pc = "lookup" /\ pc' = "exited" => outcome' = "read_error")]_vars

\* A later invocation has read the document written once before.
C8_Witness ==
    /\ pc = "connect"
    /\ ~after_seed
    /\ db_creds = secret
    /\ secret_writes = 0
    /\ total_writes = 1
    /\ tomograms # {}

\* C9: a first run that finds one of the three environment values absent
\* ends non-zero, with nothing written to the secret store and no database
\* connection attempted.
C9_MissingEnvFatal ==
    (Exited /\ env # <<>> /\ \E j \in 1..3 : env[j] = None) =>
        /\ outcome = "missing_env"
        /\ ExitCode # 0
        /\ secret_writes = 0
        /\ secret = NoSecret
        /\ db_connects = 0

C9_Witness ==
    /\ Exited
    /\ env # <<>>
    /\ env[1] # None /\ env[2] # None /\ env[3] = None
    /\ outcome = "missing_env"

\* C10: five failed polls in a row end either program non-zero, with no
\* secret read or write and no database connection attempted.
C10_UnavailableIsFatal ==
    /\ i = HealthAttempts => outcome = "unavailable"
    /\ outcome = "unavailable" =>
         /\ Exited
         /\ polls = HealthAttempts
         /\ ExitCode # 0
         /\ secret_reads = 0
         /\ secret_writes = 0
         /\ db_connects = 0
         /\ Committed = pre

C10_Witness ==
    /\ outcome = "unavailable"
    /\ tool = "query"
    /\ polls = HealthAttempts

\* C11 as stated: a run that finds the CSV missing has opened no transaction
\* and leaves the committed database, schema included, as it was.
C11_MissingCsvNoOp ==
    outcome = "csv_missing" => db_connects = 0 /\ Committed = pre

\* What the code does instead: the run finds the CSV missing inside its transaction, after
\* the schema was applied; it commits the schema and nothing else (no row of
\* tomograms, annotations or temp_tomograms changes) and ends with status 0.
C11_MissingCsvCommitsSchemaOnly ==
    outcome = "csv_missing" =>
        /\ Exited
        /\ db_connects = 1
        /\ schema_applied
        /\ Committed = [pre EXCEPT !.schema = TRUE]
        /\ ExitCode = 0

\* On a database without tables the run that missed the CSV created them.
C11_Witness ==
    /\ outcome = "csv_missing"
    /\ ~pre.schema
    /\ schema_applied

\* C12 as stated: missing first-run values, an unavailable secret store, a
\* failed database connection and a missing source file all end non-zero.
C12_FatalNonZero ==
    outcome \in {"missing_env", "unavailable", "connect_failed", "csv_missing"}
        => ExitCode # 0

\* C12 (amended): the first three end with status 1; a missing source file
\* ends with status 0.
C12_FatalNonZeroButCsv ==
    /\ outcome \in {"missing_env", "unavailable", "connect_failed"} => ExitCode = 1
    /\ outcome = "csv_missing" => ExitCode = 0

C12_Witness ==
    /\ outcome = "connect_failed"
    /\ tool = "etl"
    /\ db_connects = 1
    /\ ExitCode = 1

\* C13: an invocation that attempted a database connection has read the
\* credential document once, holds exactly that document as its credentials,
\* and has neither read the first-run environment nor written the store.
C13_StoreNeverBypassed ==
    (db_connects > 0 \/ pc \in {"connect", "query"}) =>
        /\ secret_reads = 1
        /\ db_creds # NoSecret
        /\ db_creds = secret
        /\ env = <<>>
        /\ secret_writes = 0

C13_Witness ==
    /\ tool = "query"
    /\ outcome = "queried"
    /\ db_connects = 1
    /\ db_creds = secret

\* C14: a read of the credential document that fails otherwise than by
\* not-found ends the process non-zero after that one read, with no write to
\* the store, no first-run environment read and no database connection;
\* first-run initialisation is entered only when nothing is stored.
C14_ReadFailureFatal ==
    /\ outcome = "read_error" =>
         /\ Exited
         /\ ExitCode # 0
         /\ secret_reads = 1
         /\ secret_writes = 0
         /\ env = <<>>
         /\ db_connects = 0
         /\ Committed = pre
    /\ pc = "firstrun" => secret = NoSecret /\ secret_reads = 1

\* The read failed although the document exists.
C14_Witness ==
    /\ outcome = "read_error"
    /\ secret # NoSecret
    /\ tool = "etl"

\* The rows of the last committed CSV that name n.
CsvCount(n) == Cardinality({j \in 1..Len(loaded) : loaded[j].tomo_name = n})

C15_OrderWitness ==
    /\ result.cmd = "find_rich"
    /\ result.min = 0
    /\ Len(result.rows) = 2
    /\ result.rows[1].annotation_count = 2
    /\ result.rows[2].annotation_count = 1

C17_GateBounded ==
    /\ polls <= HealthAttempts
    /\ pc = "lookup" => polls = i + 1
    /\ outcome \in {"unavailable", "health_error"} => polls = HealthAttempts

\* C18: the rows to load are keyed from the tomograms table as the
\* transaction sees it after the merge: every CSV row has the id stored for
\* its name, whether that row was inserted by this run or existed before.
C18_MappingReread ==
    pc \in {"truncate", "insert"} =>
        /\ Len(df_annotations) = Len(df_labels)
        /\ \A j \in 1..Len(df_labels) :
             /\ df_annotations[j].tomo_id # NaN
             /\ \E t \in tx.tomograms :
                  /\ t.tomo_name = df_labels[j].tomo_name
                  /\ t.tomo_id = df_annotations[j].tomo_id

\* One CSV name existed before the run, the other was inserted by it.
C18_Witness ==
    /\ pc = "truncate"
    /\ Len(df_labels) = 2
    /\ df_labels[1].tomo_name \in TomoNames(tomograms)
    /\ df_labels[2].tomo_name \notin TomoNames(tomograms)

\* C20: no step of the query tool changes the credential document or the
\* database, it never enters first-run initialisation, and it ends non-zero
\* when the document is not found.
C20_QueryReadOnly ==
    /\ [](tool = "query" /\ outcome = "not_found" => ExitCode # 0 /\ secret = NoSecret)
    /\ [][tool' = "query" =>
            /\ secret' = secret
            /\ total_writes' = total_writes
            /\ secret_writes' = 0
            /\ Committed' = Committed
            /\ tomograms_seq' = tomograms_seq
            /\ tx' = NoTx
            /\ pc' # "firstrun"]_vars

C20_Witness ==
    /\ tool = "query"
    /\ outcome = "not_found"
    /\ secret_reads = 1

BothDone == conc.concurrent /\ \A r \in Procs : conc.run[r].pc = "done"

\* C19 as stated: two concurrent runs both succeed, annotations is exactly the
\* snapshot of one run's CSV, and tomograms holds the names of both runs (and
\* the earlier ones), one row per name.
C19_RunsSerialize ==
    BothDone =>
        /\ \A r \in Procs : conc.run[r].outcome = "loaded"
        /\ \E r \in Procs : annotations = Snapshot(conc.run[r].csv)
        /\ TomoNames(tomograms) =
               TomoNames(pre.tomograms) \cup
               UNION {Range(NameColumn(conc.run[r].csv)) : r \in Procs}
        /\ \A t1 \in tomograms, t2 \in tomograms :
               (t1.tomo_name = t2.tomo_name \/ t1.tomo_id = t2.tomo_id) => t1 = t2

\* At most one run is between its staging and its commit.
StagingIsExclusive ==
    conc.concurrent =>
        ~ \A r \in Procs : conc.run[r].pc \in {"merge", "reread", "facts", "commit"}

\* When temp_tomograms existed before both runs, C19 holds as stated.
StagedRunsSerialize ==
    conc.concurrent /\ conc.staged0 => C19_RunsSerialize

\* When temp_tomograms did not exist, one of two overlapping runs may fail;
\* the committed state is then that of the other run alone.
FailedRunLeavesOther ==
    BothDone =>
        /\ \E r \in Procs : conc.run[r].outcome = "loaded"
        /\ \A r \in Procs :
               conc.run[r].outcome = "rolled_back" =>
                   /\ ~conc.staged0
                   /\ conc.run[r].status = [code |-> 1]
                   /\ annotations = Snapshot(conc.run[other(r)].csv)
                   /\ TomoNames(tomograms) =
                          TomoNames(pre.tomograms) \cup
                          Range(NameColumn(conc.run[other(r)].csv))

====
